---- MODULE Spec2Model ----
(***************************************************************************)
(* QueryHandler.js: reading the page's query parameters and propagating    *)
(* them onto an iframe's src, the page's location or an anchor's href.     *)
(*                                                                         *)
(* Text (URLs, query strings, keys, values) is a sequence of tokens.  A    *)
(* token is one code unit of the text or an indivisible run of them        *)
(* ("https://x.com", "__proto__", "%20", "id").                            *)
(***************************************************************************)
EXTENDS Integers, Sequences, FiniteSets, TLC

\* ------------------------------------------------------------------ bounds

\* key=value segments in the page's query string
MaxPairs == 2
\* key=value segments in a base URL's query string
MaxBasePairs == 2
\* properties written into a caller's params object
MaxParams == 2
\* calls made on one page
MaxCalls == 3

\* ------------------------------------------------------------------ text

Empty == << >>

Origins == {"https://x.com", "https://example.com"}

Digits == {"0", "1", "2", "5", "9"}

DigitVal(t) ==
    CASE t = "1" -> 1 [] t = "2" -> 2 [] t = "5" -> 5 [] t = "9" -> 9 [] OTHER -> 0

\* Position of the first sep in s, 0 when there is none.
IndexOf(s, sep) ==
    IF \E i \in 1..Len(s) : s[i] = sep
    THEN CHOOSE i \in 1..Len(s) : s[i] = sep /\ \A j \in 1..(i - 1) : s[j] # sep
    ELSE 0

RECURSIVE SplitOn(_, _)
SplitOn(s, sep) ==
    LET i == IndexOf(s, sep)
    IN IF i = 0 THEN <<s>>
       ELSE <<SubSeq(s, 1, i - 1)>> \o SplitOn(SubSeq(s, i + 1, Len(s)), sep)

RECURSIVE Join(_, _)
Join(parts, sep) ==
    IF parts = << >> THEN << >>
    ELSE IF Len(parts) = 1 THEN parts[1]
    ELSE parts[1] \o <<sep>> \o Join(Tail(parts), sep)

\* application/x-www-form-urlencoded decoding of one token: "+" is a space,
\* a percent escape is the byte it names.
DecodeToken(t) ==
    CASE t = "+"   -> " "
      [] t = "%20" -> " "
      [] t = "%3D" -> "="
      [] t = "%26" -> "&"
      [] t = "%2B" -> "+"
      [] t = "%3F" -> "?"
      [] t = "%2F" -> "/"
      [] OTHER     -> t

\* application/x-www-form-urlencoded encoding of one token: alphanumerics and
\* "*-._" stay, a space is "+", anything else is percent-escaped.
EncodeToken(t) ==
    CASE t = " " -> "+"
      [] t = "=" -> "%3D"
      [] t = "&" -> "%26"
      [] t = "+" -> "%2B"
      [] t = "?" -> "%3F"
      [] t = "/" -> "%2F"
      [] OTHER   -> t

Decode(s) == [i \in 1..Len(s) |-> DecodeToken(s[i])]

Encode(s) == [i \in 1..Len(s) |-> EncodeToken(s[i])]

\* ------------------------------------------------------- URLSearchParams

\* One "&"-separated segment as a <<name, value>> pair: split at the first
\* "=", a segment without "=" has the empty value.
ParsePair(seg) ==
    LET i == IndexOf(seg, "=")
    IN IF i = 0 THEN <<Decode(seg), Empty>>
       ELSE <<Decode(SubSeq(seg, 1, i - 1)), Decode(SubSeq(seg, i + 1, Len(seg)))>>

RECURSIVE ParsePairs(_)
ParsePairs(segs) ==
    IF segs = << >> THEN << >>
    ELSE IF segs[1] = << >> THEN ParsePairs(Tail(segs))
    ELSE <<ParsePair(segs[1])>> \o ParsePairs(Tail(segs))

\* The urlencoded parser: the list of name-value pairs of a query string.
ParseUrlencoded(q) == ParsePairs(SplitOn(q, "&"))

\* new URLSearchParams(init): one leading "?" of init is dropped.
URLSearchParams(init) ==
    IF Len(init) > 0 /\ init[1] = "?" THEN ParseUrlencoded(Tail(init))
    ELSE ParseUrlencoded(init)

\* A serializer that writes names and values unescaped.
SerializeUnescaped(list) ==
    Join([i \in 1..Len(list) |-> list[i][1] \o <<"=">> \o list[i][2]], "&")

\* The urlencoded serializer.
SerializeUrlencoded(list) ==
    Join([i \in 1..Len(list) |-> Encode(list[i][1]) \o <<"=">> \o Encode(list[i][2])], "&")

HasName(list, k) == \E i \in 1..Len(list) : list[i][1] = k

FirstIndex(list, k) == CHOOSE i \in 1..Len(list) : list[i][1] = k /\ \A j \in 1..(i - 1) : list[j][1] # k

RECURSIVE DropName(_, _)
DropName(list, k) ==
    IF list = << >> THEN << >>
    ELSE IF list[1][1] = k THEN DropName(Tail(list), k)
    ELSE <<list[1]>> \o DropName(Tail(list), k)

\* A set that leaves the later pairs named k in the list.
ListSetFirstOnly(list, k, v) ==
    IF HasName(list, k)
    THEN [i \in 1..Len(list) |-> IF i = FirstIndex(list, k) THEN <<k, v>> ELSE list[i]]
    ELSE Append(list, <<k, v>>)

\* A set that deletes the pairs named k and appends the new pair.
ListSetMoveLast(list, k, v) == Append(DropName(list, k), <<k, v>>)

\* URLSearchParams.prototype.set on the list: the first pair named k takes
\* the value and every other pair named k is removed; without such a pair
\* the new pair is appended.
ListSet(list, k, v) ==
    IF HasName(list, k)
    THEN LET i == FirstIndex(list, k)
         IN SubSeq(list, 1, i - 1) \o <<(<<k, v>>)>> \o DropName(SubSeq(list, i + 1, Len(list)), k)
    ELSE Append(list, <<k, v>>)

\* ------------------------------------------------------------------- URL

\* A parser that accepts any text but the empty one.
URLCanParseNonEmpty(text) == Len(text) > 0

\* new URL(text) succeeds for an absolute URL: an origin, then nothing, a
\* path or a query.  Relative references and text without a scheme throw.
URLCanParse(text) ==
    /\ Len(text) > 0
    /\ text[1] \in Origins
    /\ (Len(text) > 1 => text[2] \in {"/", "?"})

\* The URL record of a parseable text: the path of an origin alone is "/",
\* the query is what follows the first "?" (hasQuery tells a null query
\* from an empty one), and list is the URLSearchParams object of the URL.
NewURL(text) ==
    LET rest == Tail(text)
        i    == IndexOf(rest, "?")
        path == IF i = 0 THEN rest ELSE SubSeq(rest, 1, i - 1)
        qry  == IF i = 0 THEN Empty ELSE SubSeq(rest, i + 1, Len(rest))
    IN [origin   |-> text[1],
        path     |-> IF path = Empty THEN <<"/">> ELSE path,
        hasQuery |-> i # 0,
        query    |-> qry,
        list     |-> ParseUrlencoded(qry)]

\* A serializer that leaves the query out.
HrefWithoutSearch(url) == <<url.origin>> \o url.path

\* The href getter: the URL serializer.
Href(url) ==
    <<url.origin>> \o url.path \o (IF url.hasQuery THEN <<"?">> \o url.query ELSE Empty)

\* The search getter: empty for a null or empty query, else "?" and the query.
Search(url) ==
    IF url.hasQuery /\ url.query # Empty THEN <<"?">> \o url.query ELSE Empty

\* url.searchParams.append(k, v) in the place of set.
SearchParamsAppend(url, k, v) ==
    LET list == Append(url.list, <<k, v>>)
        ser  == SerializeUrlencoded(list)
    IN [url EXCEPT !.list = list, !.query = ser, !.hasQuery = (ser # Empty)]

\* url.searchParams.set(k, v), then the update steps of the URLSearchParams
\* object: the URL's query becomes the serialization of the list, or null
\* when that is empty.
SearchParamsSet(url, k, v) ==
    LET list == ListSet(url.list, k, v)
        ser  == SerializeUrlencoded(list)
    IN [url EXCEPT !.list = list, !.query = ser, !.hasQuery = (ser # Empty)]

\* ------------------------------------------------------------ JS objects

\* An ordinary object with text-valued own properties is the sequence of
\* its <<key, value>> properties in creation order.

\* The digits of 2^32 - 2, the largest array index.
MaxArrayIndex == <<4, 2, 9, 4, 9, 6, 7, 2, 9, 4>>

DigitsOf(k) == [i \in 1..Len(k) |-> DigitVal(k[i])]

\* a < b for digit sequences of one length.
LexLess(a, b) ==
    \E i \in 1..Len(a) : a[i] < b[i] /\ \A j \in 1..(i - 1) : a[j] = b[j]

\* a < b for canonical numeric strings.
NumLess(a, b) ==
    \/ Len(a) < Len(b)
    \/ Len(a) = Len(b) /\ LexLess(DigitsOf(a), DigitsOf(b))

\* A key that is a canonical numeric string (digits only, no leading zero)
\* of a number up to 2^32 - 2.
IsArrayIndex(k) ==
    /\ Len(k) > 0
    /\ \A i \in 1..Len(k) : k[i] \in Digits
    /\ (k[1] = "0" => Len(k) = 1)
    /\ \/ Len(k) < Len(MaxArrayIndex)
       \/ Len(k) = Len(MaxArrayIndex) /\ ~LexLess(MaxArrayIndex, DigitsOf(k))

HasOwn(obj, k) == HasName(obj, k)

Get(obj, k) == obj[FirstIndex(obj, k)][2]

\* obj[k] = v for a text v.  "__proto__" is the accessor inherited from
\* Object.prototype, whose setter ignores a value that is not an object;
\* an own property is overwritten where it is; a new one is created last.
ObjSet(obj, k, v) ==
    IF k = <<"__proto__">> THEN obj
    ELSE IF HasOwn(obj, k)
    THEN [i \in 1..Len(obj) |-> IF obj[i][1] = k THEN <<k, v>> ELSE obj[i]]
    ELSE Append(obj, <<k, v>>)

RECURSIVE SortedIndices(_)
SortedIndices(props) ==
    IF props = << >> THEN << >>
    ELSE LET m == CHOOSE i \in 1..Len(props) :
                      \A j \in 1..Len(props) : ~NumLess(props[j][1], props[i][1])
         IN <<props[m]>> \o SortedIndices(SubSeq(props, 1, m - 1) \o SubSeq(props, m + 1, Len(props)))

\* Object.entries(obj): the array-index keys in ascending numeric order,
\* then the other keys in creation order.
ObjectEntries(obj) ==
    SortedIndices(SelectSeq(obj, LAMBDA p : IsArrayIndex(p[1])))
        \o SelectSeq(obj, LAMBDA p : ~IsArrayIndex(p[1]))

\* ------------------------------------------------------------------- DOM

Elements == {"iframe1", "a1", "div1"}

KindOf(el) ==
    CASE el = "iframe1" -> "HTMLIFrameElement"
      [] el = "a1"      -> "HTMLAnchorElement"
      [] OTHER          -> "HTMLDivElement"

\* A check that accepts any element.
InstanceOfElement(el) == el \in Elements

\* iframeElement instanceof HTMLIFrameElement
InstanceOfIFrame(el) == KindOf(el) = "HTMLIFrameElement"

\* anchorElement instanceof HTMLAnchorElement
InstanceOfAnchor(el) == KindOf(el) = "HTMLAnchorElement"

\* ---------------------------------------------------------- QueryHandler

RECURSIVE CollectParams(_, _)
CollectParams(result, params) ==
    IF params = << >> THEN result
    ELSE CollectParams(ObjSet(result, params[1][1], params[1][2]), Tail(params))

\* getAllQueryParams() on a page whose location is the text `loc`.
getAllQueryParams(loc) ==
    CollectParams(<< >>, URLSearchParams(Search(NewURL(loc))))

RECURSIVE SetEntries(_, _)
SetEntries(url, entries) ==
    IF entries = << >> THEN url
    ELSE SetEntries(SearchParamsSet(url, entries[1][1], entries[1][2]), Tail(entries))

\* appendQueryParams(baseUrl, params) for a parseable baseUrl.
appendQueryParams(baseUrl, params) ==
    Href(SetEntries(NewURL(baseUrl), ObjectEntries(params)))

\* What setIframeSrcWithQuery assigns to iframeElement.src.
IframeSrcValue(loc, baseIframeUrl) ==
    appendQueryParams(baseIframeUrl, getAllQueryParams(loc))

\* What redirectToUrlWithQuery assigns to window.location.href.
RedirectValue(loc, baseUrl) ==
    appendQueryParams(baseUrl, getAllQueryParams(loc))

\* A link that leaves the page's parameters out.
AnchorHrefWithoutQuery(loc, baseUrl) == appendQueryParams(baseUrl, Empty)

\* What generateLinkWithQuery assigns to anchorElement.href.
AnchorHrefValue(loc, baseUrl) ==
    appendQueryParams(baseUrl, getAllQueryParams(loc))

\* ----------------------------------------------------------------- state

VARIABLES
    location,   \* window.location.href, a text
    src,        \* the src attribute of each element
    href,       \* the href attribute of each element
    call,       \* the last call: operation and arguments
    ret,        \* how the last call completed
    ncalls,     \* calls made so far
    first,      \* the first sink call that completed normally
    args        \* the arguments a caller of appendQueryParams holds

vars == <<location, src, href, call, ret, ncalls, first, args>>

NoCall == [op |-> "none", baseUrl |-> Empty, params |-> Empty, el |-> "none", nested |-> FALSE]

Call(op, baseUrl, params, el) ==
    [op |-> op, baseUrl |-> baseUrl, params |-> params, el |-> el, nested |-> FALSE]

Returned == [threw |-> FALSE, name |-> "", message |-> "", url |-> Empty, map |-> Empty]

ReturnedUrl(u) == [Returned EXCEPT !.url = u]

ReturnedMap(m) == [Returned EXCEPT !.map = m]

Threw(name, message) == [Returned EXCEPT !.threw = TRUE, !.name = name, !.message = message]

\* new URL(text) on a text that is no absolute URL.
InvalidUrl == Threw("TypeError", "Invalid URL")

NoFirst == [op |-> "none", baseUrl |-> Empty, el |-> "none", search |-> Empty, url |-> Empty, at |-> 0]

\* The first normally completed sink call, with the page's query string at
\* the call, the URL it wrote and its number among the calls.
Remember(op, baseUrl, el, url) ==
    IF first = NoFirst
    THEN [op |-> op, baseUrl |-> baseUrl, el |-> el,
          search |-> Search(NewURL(location)), url |-> url, at |-> ncalls + 1]
    ELSE first

\* ---------------------------------------------------------------- inputs

SeqsUpTo(S, n) == UNION {[1..m -> S] : m \in 0..n}

\* The query strings of up to n "&"-joined segments of S.
Queries(S, n) == {Join(f, "&") : f \in SeqsUpTo(S, n)}

WithQuery(prefix, q) == IF q = Empty THEN prefix ELSE prefix \o <<"?">> \o q

\* Segments of a page's query string: plain, repeated, integer-like and
\* "__proto__" keys, a key without "=", an empty key, escapes, nothing.
PageSegs ==
    { <<"id", "=", "5">>, <<"a", "=", "1">>, <<"a", "=", "2">>, <<"b">>,
      <<"2", "=", "a">>, <<"1", "=", "%20">>, <<"__proto__", "=", "1">>,
      <<"=", "1">>, << >> }

\* Segments of a base URL's query string.
BaseSegs ==
    { <<"a", "=", "9">>, <<"a">>, <<"b", "=", "+">>, <<"1", "=", "1">>,
      <<"__proto__", "=", "2">> }

\* Properties a caller writes into a params object.
ParamProps ==
    { <<(<<"a">>), (<<"1">>)>>, <<(<<"b">>), (<<"2">>)>>, <<(<<"b">>), (<<" ">>)>>,
      <<(<<"2">>), (<<"a">>)>>, <<(<<"1">>), Empty>>, <<(<<"=">>), (<<"&">>)>> }

DefaultPage == <<"https://example.com", "/">>

\* Locations of the page under the pure functions.
FnPages ==
    {WithQuery(DefaultPage, q) : q \in Queries(PageSegs, MaxPairs)}
        \cup {DefaultPage \o <<"?">>}

\* Text that is no absolute URL: empty, relative, without a scheme.
InvalidUrls == { Empty, <<"/", "?", "a", "=", "1">>, <<"x.com">> }

FnBaseUrls ==
    {WithQuery(<<"https://example.com">>, q) : q \in Queries(BaseSegs, MaxBasePairs)}
        \cup {<<"https://x.com", "/", "?">>, <<"https://x.com", "/">>}
        \cup InvalidUrls

FnParams == {CollectParams(Empty, f) : f \in SeqsUpTo(ParamProps, MaxParams)}

NoArgs == [baseUrl |-> Empty, params |-> Empty]

\* Locations the page starts at.
Pages ==
    { DefaultPage,
      <<"https://example.com", "/", "?", "id", "=", "5">>,
      <<"https://example.com", "/", "?", "b", "=", "1", "&", "2", "=", "x", "&", "1", "=", "y">>,
      <<"https://example.com", "/", "?", "a", "=", "1", "&", "a", "=", "2">> }

\* Base URLs handed to the sinks.
BaseUrls ==
    { <<"https://x.com">>,
      <<"https://x.com", "/", "?", "a", "=", "9", "&", "c", "=", "3">>,
      <<"https://x.com", "?", "c", "&", "c", "=", "2">>,
      Empty,
      <<"/", "?", "a", "=", "1">> }

\* ------------------------------------------------------------ operations

\* How appendQueryParams(baseUrl, params) completes.
AppendResult(baseUrl, params) ==
    IF URLCanParse(baseUrl) THEN ReturnedUrl(appendQueryParams(baseUrl, params))
    ELSE InvalidUrl

Init ==
    /\ location \in Pages
    /\ src = [el \in Elements |-> Empty]
    /\ href = [el \in Elements |-> Empty]
    /\ call = NoCall
    /\ ret = Returned
    /\ ncalls = 0
    /\ first = NoFirst
    /\ args = NoArgs

GetAllQueryParamsCall ==
    /\ ncalls < MaxCalls
    /\ call' = Call("getAllQueryParams", Empty, Empty, "none")
    /\ ret' = ReturnedMap(getAllQueryParams(location))
    /\ ncalls' = ncalls + 1
    /\ UNCHANGED <<location, src, href, first, args>>

AppendQueryParamsCall(baseUrl, params) ==
    /\ ncalls < MaxCalls
    /\ call' = Call("appendQueryParams", baseUrl, params, "none")
    /\ ret' = AppendResult(baseUrl, params)
    /\ ncalls' = ncalls + 1
    /\ UNCHANGED <<location, src, href, first, args>>

SetIframeSrcWithQuery(el, baseIframeUrl) ==
    /\ ncalls < MaxCalls
    /\ call' = Call("setIframeSrcWithQuery", baseIframeUrl, Empty, el)
    /\ ncalls' = ncalls + 1
    /\ UNCHANGED <<location, href, args>>
    /\ IF ~InstanceOfIFrame(el)
       THEN /\ ret' = Threw("Error", "Provided element is not a valid iframe")
            /\ UNCHANGED <<src, first>>
       ELSE IF ~URLCanParse(baseIframeUrl)
       THEN /\ ret' = InvalidUrl
            /\ UNCHANGED <<src, first>>
       ELSE LET url == IframeSrcValue(location, baseIframeUrl)
            IN /\ src' = [src EXCEPT ![el] = url]
               /\ ret' = Returned
               /\ first' = Remember("setIframeSrcWithQuery", baseIframeUrl, el, url)

RedirectToUrlWithQuery(baseUrl) ==
    /\ ncalls < MaxCalls
    /\ call' = Call("redirectToUrlWithQuery", baseUrl, Empty, "none")
    /\ ncalls' = ncalls + 1
    /\ UNCHANGED <<src, href, args>>
    /\ IF ~URLCanParse(baseUrl)
       THEN /\ ret' = InvalidUrl
            /\ UNCHANGED <<location, first>>
       ELSE LET newUrl == RedirectValue(location, baseUrl)
            IN /\ location' = Href(NewURL(newUrl))
               /\ ret' = Returned
               /\ first' = Remember("redirectToUrlWithQuery", baseUrl, "none", location')

GenerateLinkWithQuery(baseUrl, el) ==
    /\ ncalls < MaxCalls
    /\ call' = Call("generateLinkWithQuery", baseUrl, Empty, el)
    /\ ncalls' = ncalls + 1
    /\ UNCHANGED <<location, src, args>>
    /\ IF ~InstanceOfAnchor(el)
       THEN /\ ret' = Threw("Error", "Provided element is not a valid anchor element")
            /\ UNCHANGED <<href, first>>
       ELSE IF ~URLCanParse(baseUrl)
       THEN /\ ret' = InvalidUrl
            /\ UNCHANGED <<href, first>>
       ELSE LET url == AnchorHrefValue(location, baseUrl)
            IN /\ href' = [href EXCEPT ![el] = url]
               /\ ret' = Returned
               /\ first' = Remember("generateLinkWithQuery", baseUrl, el, url)

Next ==
    \/ GetAllQueryParamsCall
    \/ \E b \in BaseUrls, p \in {Empty, <<(<<(<<"a">>), (<<"1">>)>>)>>} : AppendQueryParamsCall(b, p)
    \/ \E el \in Elements, b \in BaseUrls : SetIframeSrcWithQuery(el, b)
    \/ \E b \in BaseUrls : RedirectToUrlWithQuery(b)
    \/ \E el \in Elements, b \in BaseUrls : GenerateLinkWithQuery(b, el)

Spec == Init /\ [][Next]_vars

\* ------------------------------------------ the pure functions on their own

\* The inputs: a page location for getAllQueryParams, or a base URL and a
\* params object for appendQueryParams.
InitFn ==
    /\ src = [el \in Elements |-> Empty]
    /\ href = [el \in Elements |-> Empty]
    /\ call = NoCall
    /\ ret = Returned
    /\ ncalls = 0
    /\ first = NoFirst
    /\ \/ location \in FnPages /\ args = NoArgs
       \/ /\ location = DefaultPage
          /\ args \in {[baseUrl |-> b, params |-> p] : b \in FnBaseUrls, p \in FnParams}

FnGetAllQueryParams ==
    /\ call = NoCall
    /\ args = NoArgs
    /\ call' = Call("getAllQueryParams", Empty, Empty, "none")
    /\ ret' = ReturnedMap(getAllQueryParams(location))
    /\ UNCHANGED <<location, src, href, ncalls, first, args>>

FnAppendQueryParams ==
    /\ call = NoCall
    /\ args # NoArgs
    /\ call' = Call("appendQueryParams", args.baseUrl, args.params, "none")
    /\ ret' = AppendResult(args.baseUrl, args.params)
    /\ UNCHANGED <<location, src, href, ncalls, first, args>>

\* appendQueryParams(appendQueryParams(url, params), params): the second
\* application, on the result of the first.
FnAppendQueryParamsAgain ==
    /\ call.op = "appendQueryParams"
    /\ ~call.nested
    /\ ~ret.threw
    /\ call' = [call EXCEPT !.baseUrl = ret.url, !.nested = TRUE]
    /\ ret' = AppendResult(ret.url, call.params)
    /\ UNCHANGED <<location, src, href, ncalls, first, args>>

NextFn ==
    \/ FnGetAllQueryParams
    \/ FnAppendQueryParams
    \/ FnAppendQueryParamsAgain

SpecFn == InitFn /\ [][NextFn]_vars

\* ---------------------------------------------------------------- claims

\* The name-value pairs of the query string of a URL text, left to right.
PairsOf(text) == ParseUrlencoded(NewURL(text).query)

Names(list) == {list[i][1] : i \in DOMAIN list}

Count(list, k) == Cardinality({i \in DOMAIN list : list[i][1] = k})

\* C1: getAllQueryParams returns, without raising, a mapping whose entries
\* are exactly the key=value pairs of the page's query string: every key of
\* the query string once, with the value of its last occurrence (empty for
\* a key without "="), and nothing for an absent or empty query string.
C1_MapMatchesQuery ==
    call.op = "getAllQueryParams" =>
        LET L == PairsOf(location)
            m == ret.map
        IN /\ ~ret.threw
           /\ Names(m) = Names(L)
           /\ \A k \in Names(m) : Count(m, k) = 1
           /\ \A i \in DOMAIN m : \E j \in DOMAIN L :
                 /\ L[j] = m[i]
                 /\ \A j2 \in (j + 1)..Len(L) : L[j2][1] # m[i][1]

\* C8: the mapping returned by getAllQueryParams iterates its keys in the
\* left-to-right order of their first occurrence in the query string.
C8_KeysInOccurrenceOrder ==
    call.op = "getAllQueryParams" =>
        LET L == PairsOf(location)
            E == ObjectEntries(ret.map)
        IN \A i, j \in DOMAIN E :
               i < j => FirstIndex(L, E[i][1]) < FirstIndex(L, E[j][1])

AppendReturned == call.op = "appendQueryParams" /\ ~ret.threw

\* C2: in the result of appendQueryParams each key of params occurs exactly
\* once in the query string, with the value params gives it.
C2_EachParamKeyOnce ==
    AppendReturned =>
        LET R == PairsOf(ret.url)
            P == call.params
        IN \A i \in DOMAIN P :
              /\ Count(R, P[i][1]) = 1
              /\ \A j \in DOMAIN R : R[j][1] = P[i][1] => R[j][2] = P[i][2]

\* C2 witness: appendQueryParams returned for a base URL that holds a key
\* of params several times.
C2_Witness ==
    /\ AppendReturned
    /\ \E i \in DOMAIN call.params : Count(PairsOf(call.baseUrl), call.params[i][1]) > 1

\* The keys of params that the base URL does not have, in the iteration
\* order of params.
NewEntries(B, P) == SelectSeq(ObjectEntries(P), LAMBDA e : ~HasName(B, e[1]))

Updated(pair, P) == IF HasOwn(P, pair[1]) THEN <<pair[1], Get(P, pair[1])>> ELSE pair

ExampleParams == <<(<<(<<"a">>), (<<"1">>)>>), (<<(<<"b">>), (<<"2">>)>>)>>

ExampleHolds ==
    (call.baseUrl = <<"https://example.com">> /\ call.params = ExampleParams)
        => ret.url = <<"https://example.com", "/", "?", "a", "=", "1", "&", "b", "=", "2">>

\* C3, as stated: the result's parameters are all the parameters of baseUrl
\* in their order (with the value of params where params has the key), then
\* the keys of params that baseUrl lacks, in the iteration order of params.
C3_AllExistingThenNew ==
    AppendReturned =>
        LET B == PairsOf(call.baseUrl)
            P == call.params
        IN /\ PairsOf(ret.url) = [i \in DOMAIN B |-> Updated(B[i], P)] \o NewEntries(B, P)
           /\ ExampleHolds

\* C3, amended: as stated, except that of a key of params that baseUrl
\* holds several times only the first occurrence stays (updated in place).
C3_ExistingThenNew ==
    AppendReturned =>
        LET B == PairsOf(call.baseUrl)
            P == call.params
            T == SelectSeq([i \in DOMAIN B |-> <<i, B[i]>>],
                           LAMBDA t : ~HasOwn(P, t[2][1]) \/ t[1] = FirstIndex(B, t[2][1]))
        IN /\ PairsOf(ret.url) = [i \in DOMAIN T |-> Updated(T[i][2], P)] \o NewEntries(B, P)
           /\ ExampleHolds

\* C3 witness: a base URL with parameters, some overwritten and some kept,
\* and a params object that adds a key.
C3_Witness ==
    /\ AppendReturned
    /\ LET B == PairsOf(call.baseUrl)
           P == call.params
       IN /\ \E i \in DOMAIN B : HasOwn(P, B[i][1])
          /\ \E i \in DOMAIN B : ~HasOwn(P, B[i][1])
          /\ Len(NewEntries(B, P)) > 0

\* C7: appendQueryParams(appendQueryParams(url, params), params) equals
\* appendQueryParams(url, params).
C7_MergeIdempotent ==
    call.nested => ~ret.threw /\ ret.url = call.baseUrl

\* C7 witness: the second application has returned, for params that
\* overwrite a parameter of the URL and add one.
C7_Witness ==
    /\ call.nested
    /\ ~ret.threw
    /\ \E i \in DOMAIN call.params : HasName(PairsOf(args.baseUrl), call.params[i][1])
    /\ Len(NewEntries(PairsOf(args.baseUrl), call.params)) > 0

\* C10: appendQueryParams(url, {}) returns a URL with the same sequence of
\* query parameters as url and equivalent non-query parts.
C10_EmptyParamsKeepUrl ==
    (AppendReturned /\ call.params = Empty) =>
        /\ PairsOf(ret.url) = PairsOf(call.baseUrl)
        /\ NewURL(ret.url).origin = NewURL(call.baseUrl).origin
        /\ NewURL(ret.url).path = NewURL(call.baseUrl).path

\* C10 witness: appendQueryParams returned for empty params and a URL that
\* repeats a key.
C10_Witness ==
    /\ AppendReturned
    /\ call.params = Empty
    /\ \E k \in Names(PairsOf(call.baseUrl)) : Count(PairsOf(call.baseUrl), k) > 1

Sinks == {"setIframeSrcWithQuery", "redirectToUrlWithQuery", "generateLinkWithQuery"}

\* C4: a sink that completes normally has written exactly
\* appendQueryParams(base, getAllQueryParams()) of the page's query string
\* to its target; with search "?id=5" and base "https://x.com" the anchor's
\* href is "https://x.com/?id=5".
C4_SinksWriteMergedUrl ==
    [][(call'.op \in Sinks /\ ~ret'.threw) =>
          LET u == appendQueryParams(call'.baseUrl, getAllQueryParams(location))
          IN /\ call'.op = "setIframeSrcWithQuery" => src'[call'.el] = u
             /\ call'.op = "redirectToUrlWithQuery" => location' = u
             /\ call'.op = "generateLinkWithQuery" => href'[call'.el] = u
             /\ (/\ call'.op = "generateLinkWithQuery"
                 /\ call'.baseUrl = <<"https://x.com">>
                 /\ Search(NewURL(location)) = <<"?", "id", "=", "5">>)
                    => href'[call'.el] = <<"https://x.com", "/", "?", "id", "=", "5">>]_vars

\* C4 witness: generateLinkWithQuery has completed on the anchor with base
\* "https://x.com" on the page with search "?id=5".
C4_Witness ==
    /\ call.op = "generateLinkWithQuery"
    /\ ~ret.threw
    /\ call.baseUrl = <<"https://x.com">>
    /\ Search(NewURL(location)) = <<"?", "id", "=", "5">>
    /\ href["a1"] = <<"https://x.com", "/", "?", "id", "=", "5">>

WrongElement(c) ==
    \/ c.op = "setIframeSrcWithQuery" /\ KindOf(c.el) # "HTMLIFrameElement"
    \/ c.op = "generateLinkWithQuery" /\ KindOf(c.el) # "HTMLAnchorElement"

\* C5: setIframeSrcWithQuery on an element that is no iframe, and
\* generateLinkWithQuery on one that is no anchor, raise the type-mismatch
\* error with its message for every base URL, and leave every attribute
\* and the page location as they were.
C5_WrongElementRaises ==
    [][WrongElement(call') =>
          /\ ret'.threw
          /\ ret'.name = "Error"
          /\ call'.op = "setIframeSrcWithQuery"
                => ret'.message = "Provided element is not a valid iframe"
          /\ call'.op = "generateLinkWithQuery"
                => ret'.message = "Provided element is not a valid anchor element"
          /\ src' = src /\ href' = href /\ location' = location]_vars

\* C5 witness: setIframeSrcWithQuery raised on an anchor although the base
\* URL does not parse either.
C5_Witness ==
    /\ call.op = "setIframeSrcWithQuery"
    /\ call.el = "a1"
    /\ call.baseUrl = Empty
    /\ ret.threw
    /\ ret.message = "Provided element is not a valid iframe"

NotAbsolute(text) == Len(text) = 0 \/ text[1] \notin Origins

Target(c, loc, s, h) ==
    CASE c.op = "setIframeSrcWithQuery" -> s[c.el]
      [] c.op = "generateLinkWithQuery" -> h[c.el]
      [] OTHER                          -> loc

\* A sink call that repeats the first one (same operation, base URL and
\* target) on a page with the same query string leaves the target holding
\* the URL the first one wrote.
RepeatWritesSame ==
    (/\ first # NoFirst
     /\ call'.op = first.op /\ call'.baseUrl = first.baseUrl /\ call'.el = first.el
     /\ ~ret'.threw
     /\ Search(NewURL(location)) = first.search)
        => Target(call', location', src', href') = first.url

SecondRedirect ==
    /\ call.op = "redirectToUrlWithQuery" /\ ~ret.threw
    /\ call'.op = "redirectToUrlWithQuery" /\ ~ret'.threw
    /\ call'.baseUrl = call.baseUrl

\* A query string that repeats no key and is the serialization of its pairs.
Canonical(text) ==
    LET L == PairsOf(text)
    IN /\ \A k \in Names(L) : Count(L, k) = 1
       /\ NewURL(text).query = SerializeUrlencoded(L)

\* C9, as stated: repeating a sink call under the same query string writes
\* the same URL, and a second redirectToUrlWithQuery(baseUrl) from the page
\* the first one reached navigates to that same URL again.
C9_RedirectTwiceSame ==
    [][RepeatWritesSame /\ (SecondRedirect => location' = location)]_vars

\* C9, amended: as stated, the second redirect reaching the same URL when
\* baseUrl's query string repeats no key and is in serialized form.
C9_Stateless ==
    [][/\ RepeatWritesSame
       /\ (SecondRedirect /\ Canonical(call.baseUrl)) => location' = location]_vars

\* C9 witness: the second of two redirects to a base URL with a query
\* string has left the page, which had parameters of its own, where the
\* first one took it.
C9_Witness ==
    /\ first.op = "redirectToUrlWithQuery"
    /\ first.at = 1
    /\ ncalls = 2
    /\ call.op = "redirectToUrlWithQuery"
    /\ ~ret.threw
    /\ call.baseUrl = first.baseUrl
    /\ PairsOf(call.baseUrl) # Empty
    /\ first.search # Empty
    /\ location = first.url

====
